---- MODULE Spec2Model ----
(***************************************************************************)
(* Model of srcomp-cli's `knocked-out-teams` command                       *)
(* (sr/comp/cli/knocked_out_teams.py).                                     *)
(*                                                                         *)
(* The compstate (schedule, scores, teams) is the environment: matches are *)
(* scored one after another, and scoring a match resolves the slots that   *)
(* depend on it.  Between scorings the command may be invoked; it loads    *)
(* the compstate, iterates teams_and_rounds(comp) and prints its report.   *)
(***************************************************************************)
EXTENDS Integers, Sequences, FiniteSets

\* ------------------------------------------------------------------ bounds
\* Largest number of knockout rounds of a bracket.
MaxRounds == 4
\* Number of league matches that precede the knockouts.
NLeagueMatches == 2

\* ----------------------------------------------------------------- helpers
\* `x is not None` (line 64): the value of an undetermined slot.
None == 0

Range(s) == {s[k] : k \in DOMAIN s}

Max(S) == CHOOSE x \in S : \A y \in S : y <= x

Min(S) == CHOOSE x \in S : \A y \in S : x <= y

RECURSIVE Sorted(_)
\* sorted(...) of a set of TLAs (line 137).
Sorted(S) == IF S = {} THEN <<>> ELSE <<Min(S)>> \o Sorted(S \ {Min(S)})

\* --------------------------------------------------- the competition state
\* comp.teams.keys(): every team of the competition, one more than any
\* bracket holds so that some team never reaches the knockouts.
NumTeams == IF MaxRounds + 2 > 5 THEN MaxRounds + 2 ELSE 5

Teams == 1..NumTeams

Seed(k) == [kind |-> "seed", n |-> k]

Winner(idx) == [kind |-> "winner", n |-> idx]

\* A bracket where each round is one match between the winner of the prior
\* round and a seed which bypassed the earlier rounds.
Ladder(n) ==
    [r \in 1..n |->
        << [idx |-> r - 1,
            src |-> << IF r = 1 THEN Seed(n + 1) ELSE Winner(r - 2),
                       Seed(n + 1 - r) >>] >>]

\* Two semi finals and a final.
Tree ==
    << << [idx |-> 0, src |-> <<Seed(1), Seed(4)>>],
          [idx |-> 1, src |-> <<Seed(2), Seed(3)>>] >>,
       << [idx |-> 2, src |-> <<Winner(0), Winner(1)>>] >> >>

\* A ladder with a round without matches before its round e (0-based).
LadderWithGap(n, e) ==
    [r \in 1..(n + 1) |->
        IF r = e + 1 THEN <<>>
        ELSE IF r <= e THEN Ladder(n)[r] ELSE Ladder(n)[r - 1]]

Brackets == {Ladder(n) : n \in 1..MaxRounds} \cup {Tree}

\* Brackets in which a round may be without matches.
VacuousBrackets ==
    Brackets \cup UNION {{LadderWithGap(n, e) : e \in 0..n} : n \in 1..MaxRounds}

VARIABLES
    bracket,            \* structure of comp.schedule.knockout_rounds
    matches,            \* comp.schedule.matches (one arena), num = index - 1
    last_scored_match,  \* comp.scores.last_scored_match
    pc,                 \* position of the command: idle, running, break, done, raised
    force,              \* settings.force
    idx,                \* index of the next round the generator yields
    yielded,            \* the Round values yielded so far
    output,             \* the lines printed so far
    prev                \* compstate and rounds of the last completed invocation

\* The state of the `deploy` command (sr/comp/cli/deploy.py).
VARIABLES
    d_pc,           \* position of the deploy command
    d_args,         \* args.verbose and args.skip_host_check
    d_has_changes,  \* compstate.has_changes
    d_hosts,        \* compstate.deployments, once read
    d_host,         \* position in d_hosts of the host being handled
    d_load,         \* outcome of compstate.load(): not_yet, ok, failed
    d_num_errors,   \* what validate(comp) returned
    d_shown,        \* the messages shown to the user
    d_status,       \* the status handed to exit()
    d_log           \* per host: what was found, asked, answered and done

kvars == <<bracket, matches, last_scored_match, pc, force, idx, yielded, output, prev>>

dvars == <<d_pc, d_args, d_has_changes, d_hosts, d_host, d_load, d_num_errors,
           d_shown, d_status, d_log>>

vars == <<kvars, dvars>>

BracketMatches(b) == UNION {Range(b[r]) : r \in DOMAIN b}

NumKnockoutMatches(b) == Cardinality(BracketMatches(b))

SrcOf(b, i) == (CHOOSE m \in BracketMatches(b) : m.idx = i).src

\* The teams of league match k.
LeagueTeams(k) == << (k % NumTeams) + 1, ((k + 1) % NumTeams) + 1 >>

\* The schedule before any slot of the knockouts is known.
UnresolvedMatches(b) ==
    [k \in 1..(NLeagueMatches + NumKnockoutMatches(b)) |->
        [num |-> k - 1,
         teams |-> IF k <= NLeagueMatches THEN LeagueTeams(k - 1)
                   ELSE <<None, None>>]]

\* The end of the league determines the seeds.
WithSeeds(b, ms) ==
    [k \in DOMAIN ms |->
        IF k <= NLeagueMatches THEN ms[k]
        ELSE [ms[k] EXCEPT !.teams =
                [s \in DOMAIN @ |->
                    LET src == SrcOf(b, k - 1 - NLeagueMatches)[s]
                    IN IF src.kind = "seed" THEN src.n ELSE @[s]]]]

\* Scoring knockout match i determines the occupant of the slots fed by it.
WithWinner(b, ms, i, w) ==
    [k \in DOMAIN ms |->
        IF k <= NLeagueMatches THEN ms[k]
        ELSE [ms[k] EXCEPT !.teams =
                [s \in DOMAIN @ |->
                    LET src == SrcOf(b, k - 1 - NLeagueMatches)[s]
                    IN IF src.kind = "winner" /\ src.n = i THEN w ELSE @[s]]]]

\* comp.schedule.knockout_rounds (line 66)
knockout_rounds ==
    [r \in DOMAIN bracket |->
        [j \in DOMAIN bracket[r] |->
            matches[NLeagueMatches + bracket[r][j].idx + 1]]]

\* ------------------------------------------------------- teams_and_rounds
\* Every slot value of the matches, None included.
SlotValues(ms) == UNION {Range(m.teams) : m \in ms}

teams_from_matches(ms) == {x \in SlotValues(ms) : x # None}

\* The names of the last two rounds exchanged.
round_name_swapped(rounds_left) ==
    IF rounds_left = 0 THEN "Semi Finals"
    ELSE IF rounds_left = 1 THEN "Finals"
    ELSE IF rounds_left = 2 THEN "Quarter Finals"
    ELSE ""

round_name(rounds_left) ==
    IF rounds_left = 0 THEN "Finals"
    ELSE IF rounds_left = 1 THEN "Semi Finals"
    ELSE IF rounds_left = 2 THEN "Quarter Finals"
    ELSE ""

\* Off by one: the slice starts at the last scored match itself.
teams_with_future_matches_incl_last ==
    teams_from_matches({matches[k] : k \in (last_scored_match + 1)..Len(matches)})

\* comp.schedule.matches[comp.scores.last_scored_match + 1:]
teams_with_future_matches ==
    teams_from_matches({matches[k] : k \in (last_scored_match + 2)..Len(matches)})

all_teams_out == Teams \ teams_with_future_matches

\* The rounds (0-based) team tla plays in.
RoundsOf(tla) ==
    {i \in 0..(Len(knockout_rounds) - 1) :
        tla \in teams_from_matches(Range(knockout_rounds[i + 1]))}

\* Lines 89-95: the rounds are visited in order, so the last assignment
\* wins.  The outer loop repeats the same assignments once per team of
\* all_teams_out, and not at all when that set is empty (then nothing would
\* be assigned anyway).
last_round_by_team ==
    [tla \in {t \in all_teams_out : RoundsOf(t) # {}} |-> Max(RoundsOf(tla))]

out_by_round(i) == {tla \in DOMAIN last_round_by_team : last_round_by_team[tla] = i}

\* `>` in place of `>=`.
this_round_complete_strict(ms) == last_scored_match > Max({m.num : m \in Range(ms)})

\* last_scored_match >= max(x.num for x in matches); max() of nothing raises.
this_round_complete(ms) == last_scored_match >= Max({m.num : m \in Range(ms)})

\* The Round yielded for index i, with teams_remaining left unfiltered.
MakeRoundUnfiltered(i) ==
    LET ms == knockout_rounds[i + 1]
    IN [number |-> i,
        name |-> round_name(Len(knockout_rounds) - 1 - i),
        teams_this_round |-> teams_from_matches(Range(ms)),
        teams_remaining |->
            UNION {SlotValues(Range(knockout_rounds[j])) : j \in (i + 1)..Len(knockout_rounds)},
        teams_out |-> out_by_round(i),
        prior_rounds_complete |-> TRUE,
        this_round_complete |-> this_round_complete(ms)]

\* The Round yielded for index i, numbered by a counter which outlives the
\* invocation.
MakeRoundCounting(i) ==
    LET ms == knockout_rounds[i + 1]
    IN [number |-> Len(prev.yielded) + i,
        name |-> round_name(Len(knockout_rounds) - 1 - i),
        teams_this_round |-> teams_from_matches(Range(ms)),
        teams_remaining |-> {},
        teams_out |-> out_by_round(i),
        prior_rounds_complete |-> TRUE,
        this_round_complete |-> this_round_complete(ms)]

\* The Round yielded for index i (lines 103-113).
MakeRound(i) ==
    LET ms == knockout_rounds[i + 1]
    IN [number |-> i,
        name |-> round_name(Len(knockout_rounds) - 1 - i),
        teams_this_round |-> teams_from_matches(Range(ms)),
        teams_remaining |-> {},
        teams_out |-> out_by_round(i),
        prior_rounds_complete |-> TRUE,
        this_round_complete |-> this_round_complete(ms)]

\* ---------------------------------------------------------------- command
Line(k, n, t) == [kind |-> k, num |-> n, text |-> t]

Blank == Line("blank", 0, "")

\* comp.teams[tla].name
TeamName(tla) == "name"

TeamLines(s) == [k \in DOMAIN s |-> Line("team", s[k], TeamName(s[k]))]

\* Whether the loop body leaves the loop at line 135.
Breaks(round_info, f) == ~round_info.prior_rounds_complete /\ ~f

\* What one pass of the loop body prints (lines 120-140).
RoundOutput(round_info, f) ==
    << Line("heading", round_info.number, round_info.name),
       Line("status", 0, IF round_info.this_round_complete
                         THEN "Fully scored"
                         ELSE "\nWARNING: Not fully scored"),
       Blank >>
    \o (IF ~round_info.prior_rounds_complete
        THEN \* the notice, its text being what is printed in front of it
             << Line("notice", 0, IF f THEN "Warning: " ELSE ""), Blank >>
        ELSE <<>>)
    \o (IF Breaks(round_info, f)
        THEN <<>>
        ELSE TeamLines(Sorted(round_info.teams_out)) \o <<Blank>>)

NoPrev == [matches |-> <<>>, last_scored_match |-> -1, yielded |-> <<>>]

\* ------------------------------------------------------------------ states
InitWith(bs) ==
    /\ bracket \in bs
    /\ last_scored_match = 0
    /\ matches = IF last_scored_match >= NLeagueMatches - 1
                 THEN WithSeeds(bracket, UnresolvedMatches(bracket))
                 ELSE UnresolvedMatches(bracket)
    /\ pc = "idle"
    /\ force = FALSE
    /\ idx = 0
    /\ yielded = <<>>
    /\ output = <<>>
    /\ prev = NoPrev

\* The deploy command is not running.
DeployOff ==
    /\ d_pc = "off"
    /\ d_args = [verbose |-> FALSE, skip_host_check |-> FALSE]
    /\ d_has_changes = FALSE
    /\ d_hosts = <<>>
    /\ d_host = 0
    /\ d_load = "not_yet"
    /\ d_num_errors = 0
    /\ d_shown = {}
    /\ d_status = 0
    /\ d_log = <<>>

Init == InitWith(Brackets) /\ DeployOff

InitVacuous == InitWith(VacuousBrackets) /\ DeployOff

\* The next league match is scored.
ScoreLeagueMatch ==
    /\ pc = "idle"
    /\ last_scored_match + 1 < NLeagueMatches
    /\ last_scored_match' = last_scored_match + 1
    /\ matches' = IF last_scored_match' = NLeagueMatches - 1
                  THEN WithSeeds(bracket, matches)
                  ELSE matches
    /\ UNCHANGED <<bracket, pc, force, idx, yielded, output, prev>>
    /\ UNCHANGED dvars

\* The next knockout match is scored and team w goes through.
ScoreKnockoutMatch ==
    /\ pc = "idle"
    /\ last_scored_match + 1 >= NLeagueMatches
    /\ last_scored_match + 1 < Len(matches)
    /\ \E w \in Range(matches[last_scored_match + 2].teams) \ {None} :
         matches' = WithWinner(bracket, matches,
                               last_scored_match + 1 - NLeagueMatches, w)
    /\ last_scored_match' = last_scored_match + 1
    /\ UNCHANGED <<bracket, pc, force, idx, yielded, output, prev>>
    /\ UNCHANGED dvars

\* command() starts: the compstate is loaded and the generator is created.
Invoke ==
    /\ pc = "idle"
    /\ \E f \in BOOLEAN : force' = f
    /\ pc' = "running"
    /\ idx' = 0
    /\ yielded' = <<>>
    /\ output' = <<>>
    /\ UNCHANGED <<bracket, matches, last_scored_match, prev>>
    /\ UNCHANGED dvars

\* The generator is advanced to its next Round and the loop body runs.
NextRound ==
    /\ pc = "running"
    /\ idx < Len(knockout_rounds)
    /\ IF knockout_rounds[idx + 1] = <<>>
       THEN \* max() of an empty sequence: ValueError out of the generator
            /\ pc' = "raised"
            /\ UNCHANGED <<idx, yielded, output>>
       ELSE LET round_info == MakeRound(idx)
            IN /\ yielded' = Append(yielded, round_info)
               /\ output' = output \o RoundOutput(round_info, force)
               /\ idx' = idx + 1
               /\ pc' = IF Breaks(round_info, force) THEN "break" ELSE "running"
    /\ UNCHANGED <<bracket, matches, last_scored_match, force, prev>>
    /\ UNCHANGED dvars

\* The loop is over: line 142.
Finish ==
    /\ \/ pc = "running" /\ idx = Len(knockout_rounds)
       \/ pc = "break"
    /\ output' = Append(output, Line("last", last_scored_match, ""))
    /\ pc' = "done"
    /\ UNCHANGED <<bracket, matches, last_scored_match, force, idx, yielded, prev>>
    /\ UNCHANGED dvars

\* The process ends; what it computed is kept for comparison only.
Exit ==
    /\ pc \in {"done", "raised"}
    /\ prev' = IF pc = "done"
               THEN [matches |-> matches,
                     last_scored_match |-> last_scored_match,
                     yielded |-> yielded]
               ELSE prev
    /\ pc' = "idle"
    /\ idx' = 0
    /\ yielded' = <<>>
    /\ output' = <<>>
    /\ UNCHANGED <<bracket, matches, last_scored_match, force>>
    /\ UNCHANGED dvars

Next ==
    \/ ScoreLeagueMatch
    \/ ScoreKnockoutMatch
    \/ Invoke
    \/ NextRound
    \/ Finish
    \/ Exit

Spec == Init /\ [][Next]_vars

SpecVacuous == InitVacuous /\ [][Next]_vars

\* ----------------------------------------------------------------- claims
\* The 1-based positions of the rounds with a slot that is still None.
UnresolvedRounds ==
    {k \in DOMAIN knockout_rounds : None \in SlotValues(Range(knockout_rounds[k]))}

\* Team t takes part in a match which has not been scored.
HasUnscoredMatch(t) ==
    \E k \in DOMAIN matches :
        matches[k].num > last_scored_match /\ t \in Range(matches[k].teams)

\* C1: for every yielded round, prior_rounds_complete is true if and only
\* if None occurs in no slot of that round's matches.
C1_PriorRoundsCompleteIffResolved ==
    \A k \in DOMAIN yielded :
        yielded[k].prior_rounds_complete <=> (k \notin UnresolvedRounds)

C3_TeamsRemainingIsThisOrLater ==
    \A k \in DOMAIN yielded :
        yielded[k].teams_remaining =
            UNION {SlotValues(Range(knockout_rounds[j])) :
                     j \in k..Len(knockout_rounds)} \ {None}

\* C4: None is in no teams_out and no teams_remaining; every member of
\* those sets is a team of the competition.
C4_NoSentinelEmitted ==
    \A k \in DOMAIN yielded :
        /\ None \notin yielded[k].teams_out
        /\ None \notin yielded[k].teams_remaining
        /\ yielded[k].teams_out \subseteq Teams
        /\ yielded[k].teams_remaining \subseteq Teams

\* Rounds with unresolved slots were yielded along with a round that has
\* knocked-out teams.
C4_Witness ==
    /\ \E k \in DOMAIN yielded : k \in UnresolvedRounds
    /\ \E k \in DOMAIN yielded : yielded[k].teams_out # {}

\* C5: a round without matches is valid: nothing is raised, its summary
\* has no teams and is marked complete, and every round gets its summary.
C5_EmptyRoundIsValid ==
    /\ pc # "raised"
    /\ pc = "done" =>
         /\ Len(yielded) = Len(knockout_rounds)
         /\ \A k \in DOMAIN yielded :
              knockout_rounds[k] = <<>> =>
                  /\ yielded[k].teams_this_round = {}
                  /\ yielded[k].prior_rounds_complete

\* C6: for every yielded round i >= 1, teams_out holds only teams which
\* took part in round i-1 and do not take part in round i.
C6_TeamsOutKnockedOutByPriorRound ==
    \A k \in DOMAIN yielded :
        k >= 2 =>
            /\ yielded[k].teams_out \subseteq
                   yielded[k - 1].teams_this_round \ yielded[k].teams_this_round
            /\ yielded[k].teams_out \cap yielded[k].teams_this_round = {}

LinesOf(kind) == {k \in DOMAIN output : output[k].kind = kind}

\* C7: when some round's prior rounds are not fully scored (it has a slot
\* which is still None), the report says so: without --force the notice is
\* printed at the first such round and no team from there on; with --force
\* every round is printed and each such round has its notice with the
\* "Warning: " prefix.  The "Last scored match" line comes last.
C7_ProvisionalNeverPresentedAsFact ==
    pc = "done" =>
        /\ output[Len(output)].kind = "last"
        /\ UnresolvedRounds # {} =>
             IF force
             THEN /\ Cardinality(LinesOf("heading")) = Len(knockout_rounds)
                  /\ Cardinality(LinesOf("notice")) = Cardinality(UnresolvedRounds)
                  /\ \A k \in LinesOf("notice") : output[k].text = "Warning: "
             ELSE /\ Cardinality(LinesOf("heading")) = Min(UnresolvedRounds)
                  /\ Cardinality(LinesOf("notice")) = 1
                  /\ \A k \in LinesOf("notice") :
                       /\ output[k].text = ""
                       /\ \A j \in LinesOf("team") : j < k

\* Every match of the rounds up to position k (1-based) has been scored.
ScoredUpTo(k) ==
    \A j \in 1..k : \A m \in Range(knockout_rounds[j]) : m.num <= last_scored_match

\* C8: this_round_complete of round i is true exactly when every match of
\* rounds 0..i has been scored; if true for a round it is true for every
\* earlier round, and it was not true in an earlier report of the same
\* competition unless it is true now.
C8_ThisRoundCompleteMonotone ==
    /\ \A k \in DOMAIN yielded :
         /\ yielded[k].this_round_complete <=> ScoredUpTo(k)
         /\ yielded[k].this_round_complete =>
                \A j \in 1..k : yielded[j].this_round_complete
    /\ \A k \in DOMAIN yielded \cap DOMAIN prev.yielded :
         prev.yielded[k].this_round_complete => yielded[k].this_round_complete

\* A report with a complete round followed by an incomplete one, where the
\* complete round was incomplete in the previous report.
C8_Witness ==
    /\ \E k \in DOMAIN yielded \cap DOMAIN prev.yielded :
         /\ ~prev.yielded[k].this_round_complete
         /\ yielded[k].this_round_complete
    /\ \E k \in DOMAIN yielded : ~yielded[k].this_round_complete

\* C9: the name of round i of n depends only on n - 1 - i: Finals, Semi
\* Finals, Quarter Finals, then the empty string; the last round yielded is
\* the Finals.
C9_RoundNames ==
    /\ \A k \in DOMAIN yielded :
         LET left == Len(knockout_rounds) - k
         IN /\ left = 0 => yielded[k].name = "Finals"
            /\ left = 1 => yielded[k].name = "Semi Finals"
            /\ left = 2 => yielded[k].name = "Quarter Finals"
            /\ left >= 3 => yielded[k].name = ""
    /\ pc = "done" => yielded[Len(yielded)].name = "Finals"

\* A complete report of a bracket whose first round has no name.
C9_Witness ==
    /\ pc = "done"
    /\ Len(yielded) >= 4
    /\ yielded[1].name = ""
    /\ yielded[Len(yielded)].name = "Finals"

MaxHosts == 2
\* Largest number of errors validate(comp) reports.
MaxErrors == 1

\* What the user may type at a prompt.
Inputs == {"y", "n", "Y", ""}

\* str.lower() and str.upper() on the strings which occur.
Lower(str) == IF str = "Y" THEN "y" ELSE IF str = "N" THEN "n" ELSE str

Upper(str) == IF str = "y" THEN "Y" ELSE IF str = "n" THEN "N" ELSE str

\* default=None of query()
NoDefault == "<None>"

\* UserInteractions.query for one reply resp; "<again>" when the loop goes
\* round to ask once more.
query(options, default, resp) ==
    LET opts == [k \in DOMAIN options |->
                    IF options[k] = default THEN Upper(options[k])
                    ELSE Lower(options[k])]
    IN IF Lower(resp) \in Range(opts) THEN Lower(resp)
       ELSE IF default # NoDefault THEN default
       ELSE "<again>"

\* UserInteractions.query_bool; default_val is "True", "False" or "None".
query_bool(default_val, resp) ==
    query(<<"y", "n">>,
          IF default_val = "True" THEN "y"
          ELSE IF default_val = "False" THEN "n"
          ELSE NoDefault,
          resp) = "y"

\* How the state of a host relates to the revision being deployed:
\* unavailable is get_current_state() returning None.
Relations == {"unavailable", "same", "ancestor", "descendant", "sibling", "unknown"}

\* What a fetch can turn an unknown state into.
AfterFetch == {"descendant", "sibling", "unknown"}

has_ancestor(rel) == rel = "ancestor"

has_commit(rel) == rel \in {"same", "ancestor", "descendant", "sibling"}

has_descendant(rel) == rel = "descendant"

\* Lines 219-237 with the check for a more recent state left out.
HistoryStepNoDescendant(rel) ==
    IF has_commit(rel) /\ ~has_descendant(rel) THEN "ask_sibling"
    ELSE IF has_commit(rel) THEN "deploy"
    ELSE "ask_unknown"

\* Lines 219-237 of check_host_state: which question comes next.
HistoryStep(rel) ==
    IF has_descendant(rel) THEN "ask_descendant"
    ELSE IF has_commit(rel) THEN "ask_sibling"
    ELSE "ask_unknown"

\* Lines 196-214 of check_host_state: where a state in relation rel leads.
HostCheckStep(rel) ==
    IF rel = "unavailable" THEN "ask_unavailable"
    ELSE IF rel = "same" THEN "skip"
    ELSE IF has_ancestor(rel) THEN "deploy"
    ELSE IF ~has_commit(rel) THEN "ask_fetch"
    ELSE HistoryStep(rel)

\* The "Deploy anyway?" questions of check_host_state.
DeployQuestions == {"ask_unavailable", "ask_descendant", "ask_sibling", "ask_unknown"}

NewHostLog ==
    [rel |-> "unchecked", fetched |-> FALSE, prompt |-> "none", answer |-> "none",
     pushed |-> FALSE, ran |-> FALSE, outcome |-> "pending"]

InitDeploy ==
    /\ InitWith({Ladder(1)})
    /\ d_pc = "start"
    /\ d_args \in [verbose : BOOLEAN, skip_host_check : BOOLEAN]
    /\ d_has_changes \in BOOLEAN
    /\ d_hosts = <<>>
    /\ d_host = 0
    /\ d_load = "not_yet"
    /\ d_num_errors = 0
    /\ d_shown = {}
    /\ d_status = 0
    /\ d_log = <<>>

\* exit(status) after the messages msgs.
DeployExit(msgs, status) ==
    /\ d_shown' = d_shown \cup msgs
    /\ d_status' = status
    /\ d_pc' = "exited"

\* Lines 294-295: the compstate is opened and its deployments are read.
GetDeployments ==
    /\ d_pc = "start"
    /\ \/ /\ \E n \in 0..MaxHosts :
               /\ d_hosts' = [h \in 1..n |-> h]
               /\ d_log' = [h \in 1..n |-> NewHostLog]
          /\ d_pc' = "require_no_changes"
          /\ UNCHANGED <<d_shown, d_status>>
       \/ /\ DeployExit({"error: deployments"}, 1)
          /\ UNCHANGED <<d_hosts, d_log>>
    /\ UNCHANGED <<d_args, d_has_changes, d_host, d_load, d_num_errors>>
    /\ UNCHANGED kvars

\* require_no_changes without its exit(1).
RequireNoChangesNoExit ==
    /\ d_pc = "require_no_changes"
    /\ d_shown' = IF d_has_changes
                  THEN d_shown \cup {"error: local changes", "info: git status"}
                  ELSE d_shown
    /\ d_pc' = "require_valid"
    /\ UNCHANGED <<d_args, d_has_changes, d_hosts, d_host, d_load, d_num_errors,
                   d_status, d_log>>
    /\ UNCHANGED kvars

\* require_no_changes (lines 240-250)
RequireNoChanges ==
    /\ d_pc = "require_no_changes"
    /\ IF d_has_changes
       THEN DeployExit({"error: local changes", "info: git status"}, 1)
       ELSE /\ d_pc' = "require_valid"
            /\ UNCHANGED <<d_shown, d_status>>
    /\ UNCHANGED <<d_args, d_has_changes, d_hosts, d_host, d_load, d_num_errors, d_log>>
    /\ UNCHANGED kvars

\* require_valid (lines 253-261) up to the question of query_warn.
RequireValid ==
    /\ d_pc = "require_valid"
    /\ \/ /\ d_load' = "failed"
          /\ DeployExit({"error: load"}, 1)
          /\ UNCHANGED <<d_num_errors, d_host>>
       \/ /\ d_load' = "ok"
          /\ \E n \in 0..MaxErrors :
               /\ d_num_errors' = n
               /\ d_pc' = IF n # 0 THEN "query_warn" ELSE "run"
          /\ d_host' = 1
          /\ UNCHANGED <<d_shown, d_status>>
    /\ UNCHANGED <<d_args, d_has_changes, d_hosts, d_log>>
    /\ UNCHANGED kvars

\* query_warn (lines 96-99): the user replies to "Warning: ... Continue?".
AnswerQueryWarn ==
    /\ d_pc = "query_warn"
    /\ \E resp \in Inputs :
         IF ~query_bool("False", resp)
         THEN DeployExit({"query: validation errors"}, 1)
         ELSE /\ d_shown' = d_shown \cup {"query: validation errors"}
              /\ d_pc' = "run"
              /\ UNCHANGED d_status
    /\ UNCHANGED <<d_args, d_has_changes, d_hosts, d_host, d_load, d_num_errors, d_log>>
    /\ UNCHANGED kvars

\* The loop of run_deployments moves to a host, or ends (lines 271-272, 285).
NextHost ==
    /\ d_pc = "run"
    /\ IF d_host > Len(d_hosts)
       THEN /\ d_shown' = d_shown \cup {"ok: Done"}
            /\ d_pc' = "returned"
       ELSE /\ d_pc' = IF d_args.skip_host_check THEN "deploy" ELSE "check"
            /\ UNCHANGED d_shown
    /\ UNCHANGED <<d_args, d_has_changes, d_hosts, d_host, d_load, d_num_errors,
                   d_status, d_log>>
    /\ UNCHANGED kvars

\* The host is skipped: lines 274-276.
SkipHost(log, msgs) ==
    /\ d_log' = [log EXCEPT ![d_host].outcome = "skipped"]
    /\ d_shown' = d_shown \cup msgs \cup {"strong: Skipping"}
    /\ d_host' = d_host + 1
    /\ d_pc' = "run"

\* What is to be done with the host after check_host_state got to step,
\* having shown msgs.
AfterCheck(step, log, msgs) ==
    IF step = "skip"
    THEN SkipHost(log, msgs)
    ELSE /\ d_log' = log
         /\ d_pc' = step
         /\ d_shown' = d_shown \cup msgs
         /\ UNCHANGED d_host

\* What check_host_state and get_current_state show before any question.
CheckMessages(rel) ==
    (IF d_args.verbose THEN {"info: Checking host state"} ELSE {})
    \cup (IF rel = "unavailable" THEN {"info: request failed"} ELSE {})
    \cup (IF rel = "same" THEN {"info: already has revision"} ELSE {})

\* check_host_state up to its first question (lines 193-214).
CheckHostState ==
    /\ d_pc = "check"
    /\ \E rel \in Relations :
         AfterCheck(HostCheckStep(rel), [d_log EXCEPT ![d_host].rel = rel],
                    CheckMessages(rel))
    /\ UNCHANGED <<d_args, d_has_changes, d_hosts, d_load, d_num_errors, d_status>>
    /\ UNCHANGED kvars

\* The user replies to "Try to fetch it?" (lines 215-217).
AnswerFetch ==
    /\ d_pc = "ask_fetch"
    /\ \E resp \in Inputs :
         IF query_bool("True", resp)
         THEN \E rel \in AfterFetch :
                AfterCheck(HistoryStep(rel),
                           [d_log EXCEPT ![d_host].rel = rel,
                                         ![d_host].fetched = TRUE],
                           {"query: fetch"})
         ELSE AfterCheck(HistoryStep(d_log[d_host].rel), d_log, {"query: fetch"})
    /\ UNCHANGED <<d_args, d_has_changes, d_hosts, d_load, d_num_errors, d_status>>
    /\ UNCHANGED kvars

\* The user replies to a "Deploy anyway?" question of check_host_state.
AnswerDeployAnyway ==
    /\ d_pc \in DeployQuestions
    /\ \E resp \in Inputs :
         LET log == [d_log EXCEPT ![d_host].prompt = d_pc,
                                  ![d_host].answer = resp]
         IN AfterCheck(IF query_bool("True", resp) THEN "deploy" ELSE "skip", log,
                       {"query: deploy anyway"})
    /\ UNCHANGED <<d_args, d_has_changes, d_hosts, d_load, d_num_errors, d_status>>
    /\ UNCHANGED kvars

\* The exit statuses of the remote ./update
RetCodes == {0, 1}

\* What deploy_to shows once ./update has ended with retcode.
DeployMessages(retcode) ==
    {"strong: Deploying", "buffer: stderr"}
    \cup (IF d_args.verbose \/ retcode # 0 THEN {"buffer: stdout"} ELSE {})

\* deploy_to and what run_deployments does with its result (lines 278-283).
DeployTo ==
    /\ d_pc = "deploy"
    /\ \E push_ok \in BOOLEAN, retcode \in RetCodes :
         IF ~push_ok
         THEN /\ d_log' = [d_log EXCEPT ![d_host].outcome = "deploy_to"]
              /\ DeployExit({"strong: Deploying", "error: push"}, 1)
              /\ UNCHANGED d_host
         ELSE /\ d_log' = [d_log EXCEPT ![d_host].outcome = "deploy_to",
                                        ![d_host].pushed = TRUE,
                                        ![d_host].ran = TRUE]
              /\ IF retcode # 0
                 THEN /\ DeployExit(DeployMessages(retcode) \cup {"error: deploy"},
                                    retcode)
                      /\ UNCHANGED d_host
                 ELSE /\ d_shown' = d_shown \cup DeployMessages(retcode)
                      /\ d_host' = d_host + 1
                      /\ d_pc' = "run"
                      /\ UNCHANGED d_status
    /\ UNCHANGED <<d_args, d_has_changes, d_hosts, d_load, d_num_errors>>
    /\ UNCHANGED kvars

NextDeploy ==
    \/ GetDeployments
    \/ RequireNoChanges
    \/ RequireValid
    \/ AnswerQueryWarn
    \/ NextHost
    \/ CheckHostState
    \/ AnswerFetch
    \/ AnswerDeployAnyway
    \/ DeployTo

SpecDeploy == InitDeploy /\ [][NextDeploy]_vars

\* The hosts whose state was asked for, pushed to, or updated.
HostsTouched ==
    {h \in DOMAIN d_log :
        d_log[h].rel # "unchecked" \/ d_log[h].pushed \/ d_log[h].ran
        \/ d_log[h].outcome # "pending"}

Errors == {"error: deployments", "error: local changes", "error: load",
           "error: push", "error: deploy"}

\* C11: a compstate with local changes is never deployed: no host state is
\* checked, nothing is pushed and no update is run; the command gets no
\* further than require_no_changes and ends with an error and status 1.
C11_NoDeployWithLocalChanges ==
    d_has_changes =>
        /\ HostsTouched = {}
        /\ d_pc \in {"start", "require_no_changes", "exited"}
        /\ d_pc = "exited" => (d_status = 1 /\ d_shown \cap Errors # {})

\* The command was stopped by require_no_changes with hosts to deploy to.
C11_Witness ==
    /\ d_has_changes
    /\ d_pc = "exited"
    /\ "error: local changes" \in d_shown
    /\ Len(d_hosts) = MaxHosts

\* C12: deploy_to is reached for a host only if the compstate loaded and
\* validation reported no errors.
C12_DeployOnlyIfValid ==
    \A h \in DOMAIN d_log :
        d_log[h].outcome = "deploy_to" => (d_load = "ok" /\ d_num_errors = 0)

\* The relations about which the user is to be warned.
WarnedRelations == {"unavailable", "descendant", "sibling", "unknown"}

\* The question which belongs to a relation.
QuestionFor(rel) ==
    IF rel = "unavailable" THEN "ask_unavailable"
    ELSE IF rel = "descendant" THEN "ask_descendant"
    ELSE IF rel = "sibling" THEN "ask_sibling"
    ELSE "ask_unknown"

\* C13: with host checks on, a host whose state is unavailable, more recent
\* or unrelated is not dealt with before the user was asked about just that
\* condition; "y" gets the host deployed to and "n" gets it skipped.
C13_WarnedAndAbleToContinue ==
    ~d_args.skip_host_check =>
        \A h \in DOMAIN d_log :
            (d_log[h].rel \in WarnedRelations /\ d_log[h].outcome # "pending") =>
                /\ d_log[h].prompt = QuestionFor(d_log[h].rel)
                /\ d_log[h].answer = "y" => d_log[h].outcome = "deploy_to"
                /\ d_log[h].answer = "n" => d_log[h].outcome = "skipped"

\* One host was deployed to on "y" and another skipped on "n", one of them
\* with a state which stayed unknown after the fetch.
C13_Witness ==
    /\ ~d_args.skip_host_check
    /\ \E h1, h2 \in DOMAIN d_log :
         /\ d_log[h1].rel \in WarnedRelations
         /\ d_log[h1].answer = "y"
         /\ d_log[h1].outcome = "deploy_to"
         /\ d_log[h2].rel \in WarnedRelations
         /\ d_log[h2].answer = "n"
         /\ d_log[h2].outcome = "skipped"
         /\ \E h \in {h1, h2} : d_log[h].rel = "unknown" /\ d_log[h].fetched

====
